---- MODULE Spec2Model ----
(***************************************************************************)
(* Lead scoring agent: the retraining controller (app/retraining.py), the  *)
(* model registry and lead store (app/database.py), the process-local      *)
(* model cache and the scoring workflow (app/workflow.py), the initial     *)
(* model save (app/model.py) and the Health/Info/Retrain endpoints         *)
(* (app/main.py).                                                          *)
(*                                                                         *)
(* Every database method opens its own connection and commits on exit      *)
(* (Database.get_connection), so one database call is one atomic step and  *)
(* nothing groups two calls into one transaction.                          *)
(*                                                                         *)
(* AUC values are integers in hundredths (0.75 is 75).  The two AUCs lie   *)
(* within a factor of two of each other, so the float subtraction of       *)
(* retrain_model is exact and the integer comparison is the comparison     *)
(* the code makes.  Version strings are sequences of one-character         *)
(* strings.  Wall-clock values are abstracted: a registry row's            *)
(* training_timestamp is its position in the registry (rows are stamped    *)
(* when inserted), the controller's and counters' timestamps are           *)
(* "never" or "set".                                                       *)
(***************************************************************************)
EXTENDS Integers, Sequences, FiniteSets, TLC

\* ------------------------------------------------------------------ settings
retraining_threshold == 50
accuracy_improvement_threshold == 2
target_auc == 75
model_version == <<"1", ".", "0">>

\* ------------------------------------------------------------------- bounds
\* AUC values a training run can report: target_auc .. target_auc + AucSpan
AucSpan == 2
\* background retraining threads started and not yet running
MaxPending == 1
\* deployments an existing registry can have behind it
MaxDeployed == 9
MaxVersionLen == 4

AucValues == target_auc .. (target_auc + AucSpan)
InitialAucValues == {target_auc}
RTasks == {"r1", "r2"}
STasks == {"s1"}
LeadIds == {"L1"}
LeadPair == {"L1", "L2"}
ScorerPair == {"s1", "s2"}
Outcomes == {"null", "true"}

\* ---------------------------------------------------------- version strings
Digits == <<"0", "1", "2", "3", "4", "5", "6", "7", "8", "9">>
IsDigit(c) == \E d \in 1..10 : Digits[d] = c
DigitVal(c) == (CHOOSE d \in 1..10 : Digits[d] = c) - 1

RECURSIVE ToInt(_)
ToInt(s) == IF s = <<>> THEN 0
            ELSE ToInt(SubSeq(s, 1, Len(s) - 1)) * 10 + DigitVal(s[Len(s)])

RECURSIVE ToStr(_)
ToStr(n) == IF n < 10 THEN <<Digits[n + 1]>>
            ELSE ToStr(n \div 10) \o <<Digits[(n % 10) + 1]>>

\* the strftime("%Y%m%d%H%M%S") values the fallback can draw
Timestamps == { <<"2","0","2","5","0","1","0","1","0","0","0","0","0","0">>,
                <<"2","0","2","5","0","1","0","1","0","0","0","0","0","1">> }

DotPositions(v) == {i \in 1..Len(v) : v[i] = "."}

\* int(minor): an optional sign followed by one or more decimal digits
\* (whitespace and "_" separators, which int() also takes, are not in the
\* alphabet of the version strings drawn here)
Unsigned(minor) ==
    IF minor # <<>> /\ Head(minor) \in {"+", "-"} THEN Tail(minor) ELSE minor

int_ok(minor) ==
    /\ Unsigned(minor) # <<>>
    /\ \A i \in 1..Len(Unsigned(minor)) : IsDigit(Unsigned(minor)[i])

int(minor) ==
    IF Head(minor) = "-" THEN 0 - ToInt(Unsigned(minor))
    ELSE ToInt(Unsigned(minor))

\* f"{new_minor}": the decimal form of an int
str(n) == IF n < 0 THEN <<"-">> \o ToStr(0 - n) ELSE ToStr(n)

\* faulty variant: the current version is handed back
generate_version_unchanged(current_version, ts) == current_version

\* faulty variant: every version is replaced by a timestamp-derived one
generate_version_timestamp(current_version, ts) == <<"1", ".">> \o ts

\* RetrainingManager._generate_version: split on ".", exactly two parts,
\* int(minor) + 1; any failure falls back to "1." + timestamp.
generate_version(current_version, ts) ==
    LET fallback == <<"1", ".">> \o ts IN
    IF Cardinality(DotPositions(current_version)) = 1
    THEN LET d == CHOOSE i \in DotPositions(current_version) : TRUE
             major == SubSeq(current_version, 1, d - 1)
             minor == SubSeq(current_version, d + 1, Len(current_version))
         IN IF int_ok(minor)
            THEN major \o <<".">> \o str(int(minor) + 1)
            ELSE fallback
    ELSE fallback

\* Python's str comparison on version strings: code point by code point,
\* "." (46) before the digits (48..57), a proper prefix first
CharCode(c) == IF c = "." THEN 46 ELSE 48 + DigitVal(c)

RECURSIVE LexLess(_, _)
LexLess(a, b) ==
    IF b = <<>> THEN FALSE
    ELSE IF a = <<>> THEN TRUE
    ELSE IF Head(a) = Head(b) THEN LexLess(Tail(a), Tail(b))
    ELSE CharCode(Head(a)) < CharCode(Head(b))

\* the version the k-th deployment gets: _generate_version applied k times
\* to settings.model_version (the fallback is not taken on this chain)
RECURSIVE generate_version_chain(_)
generate_version_chain(k) ==
    IF k = 0 THEN model_version
    ELSE generate_version(generate_version_chain(k - 1), <<>>)

\* ----------------------------------------------------------- model registry
\* models table: rows in insertion order, [version, auc, active]
NoModel == [version |-> <<>>, auc |-> 0]

Versions(ms) == {ms[i].version : i \in DOMAIN ms}
ActiveRows(ms) == {i \in DOMAIN ms : ms[i].active = 1}
ActiveVersions(ms) == {ms[i].version : i \in ActiveRows(ms)}

\* faulty variant: the registry keeps the newest artifact only
save_model_replacing(ms, version, auc) ==
    <<[version |-> version, auc |-> auc, active |-> 1]>>

\* Database.save_model: INSERT with the active flag of the metrics it is given
\* (save_to_database passes active = True)
save_model(ms, version, auc) ==
    Append(ms, [version |-> version, auc |-> auc, active |-> 1])

\* faulty variant: the UPDATE changes no row
deactivate_all_models_noop(ms) == ms

\* Database.deactivate_all_models: UPDATE models SET active = 0
deactivate_all_models(ms) ==
    [i \in DOMAIN ms |-> [ms[i] EXCEPT !.active = 0]]

\* Database.set_active_model: deactivate all, activate the given version
set_active_model(ms, version) ==
    [i \in DOMAIN ms |->
        [ms[i] EXCEPT !.active = IF ms[i].version = version THEN 1 ELSE 0]]

\* faulty variant: the newest row is loaded whatever its active flag
load_newest_row(ms) ==
    IF ms = <<>> THEN NoModel
    ELSE [version |-> ms[Len(ms)].version, auc |-> ms[Len(ms)].auc]

\* Database.get_active_model + ModelTrainer.load_from_database:
\* WHERE active = 1 ORDER BY training_timestamp DESC LIMIT 1
load_from_database(ms) ==
    IF ActiveRows(ms) = {} THEN NoModel
    ELSE LET i == CHOOSE j \in ActiveRows(ms) : \A k \in ActiveRows(ms) : k <= j
         IN [version |-> ms[i].version, auc |-> ms[i].auc]

\* get_cached_model, run with no other thread in between: the cache when it
\* is populated, else what load_from_database returns
get_cached_model(cache, ms) ==
    IF cache # NoModel THEN cache ELSE load_from_database(ms)

\* --------------------------------------------------------------- lead store
NoRow == [present |-> FALSE, actual_outcome |-> "null"]

\* rows of lead_scores with an outcome, of the identities the store tracks
FeedbackRows(ls) ==
    {l \in DOMAIN ls : ls[l].present /\ ls[l].actual_outcome # "null"}

\* Database.get_feedback_count: COUNT(*) WHERE actual_outcome IS NOT NULL
get_feedback_count(ls, other) == other + Cardinality(FeedbackRows(ls))

\* Database.get_total_scores: COUNT(*) FROM lead_scores
get_total_scores(ls, other) ==
    other + Cardinality({l \in DOMAIN ls : ls[l].present})

\* Database.get_feedback_leads: the rows with an outcome (their number)
get_feedback_leads(ls, other) == other + Cardinality(FeedbackRows(ls))

\* faulty variant: any non-negative gain counts as an improvement
retrain_model_nonnegative(new_auc, current_auc) ==
    new_auc - current_auc >= 0

\* retrain_model: the new trainer is returned only on enough improvement
retrain_model(new_auc, current_auc) ==
    new_auc - current_auc >= accuracy_improvement_threshold

\* faulty variant: the threshold test is off by one
insufficient_feedback_off_by_one(feedback_count) ==
    feedback_count < retraining_threshold - 1

\* check_and_retrain: if feedback_count < threshold
insufficient_feedback(feedback_count) ==
    feedback_count < retraining_threshold

\* ------------------------------------------------------------------- scores
\* conversion scores are in units of 0.00001
ScoreUnit == 100000
HighThreshold == 70000
MediumThreshold == 40000

\* scores at and next to the thresholds, and the ends of the range
ScoreValues == {0, 39990, 39996, 40000, 69990, 69996, 70000, ScoreUnit}
\* the score the running service's model gives the leads of LeadIds
ServiceScores == {50000}

\* score_node: >= 0.7 high, >= 0.4 medium, else low
risk_category(score) ==
    IF score >= HighThreshold THEN "high"
    ELSE IF score >= MediumThreshold THEN "medium"
    ELSE "low"

\* round(score, 4): to the nearest multiple of 0.0001, an exact tie to even
round4(score) ==
    LET r == score % 10
        base == score - r
    IN IF r > 5 THEN base + 10
       ELSE IF r < 5 THEN base
       ELSE IF (base \div 10) % 2 = 0 THEN base ELSE base + 10

\* faulty variant: the response is built whether or not the state has an error
respond_despite_error(error, response) == response

\* respond_node and score_lead: an error in the state is raised to the
\* caller and no response is returned
respond(error, response) == IF error # "" THEN <<>> ELSE response

VARIABLES
    models,           \* models table
    lead_scores,      \* lead_scores rows of the identities in LeadIds
    other_rows,       \* lead_scores rows of other identities, each with an outcome
    system_metrics,   \* system_metrics table
    model_cache,      \* workflow._model_cache
    retrain_lock,     \* holder of RetrainingManager.retrain_lock, or "free"
    is_retraining,    \* RetrainingManager.is_retraining
    last_check_time,  \* RetrainingManager.last_check_time
    last_retrain_time,\* RetrainingManager.last_retrain_time
    rtask,            \* threads running check_and_retrain
    bg_pending,       \* background threads started and not yet running
    stask,            \* Score() requests
    itask,            \* the initial-model training script
    health,           \* last Health() response
    info,             \* the Info() request and its response
    predict_proba,    \* the score model.predict_proba gives each lead
    scored_ok         \* history: identities of LeadIds a Score() response was returned for

vars == <<models, lead_scores, other_rows, system_metrics, model_cache,
          retrain_lock, is_retraining, last_check_time, last_retrain_time,
          rtask, bg_pending, stask, itask, health, info, predict_proba,
          scored_ok>>

\* --------------------------------------------------------------------- Init
NoResult == [status |-> "none", message |-> "", feedback_count |-> 0,
             threshold |-> 0, old_version |-> <<>>, new_version |-> <<>>,
             old_auc |-> 0, new_auc |-> 0]

IdleRetrain == [pc |-> "idle", feedback_count |-> 0,
                current_version |-> <<>>, current_auc |-> 0, new_auc |-> 0,
                new_version |-> <<>>, trained_on |-> 0, result |-> NoResult]

IdleScore == [pc |-> "idle", lead_id |-> "L1", actual_outcome |-> "null",
              loaded |-> NoModel, model_data |-> NoModel, total_scores |-> 0,
              feedback_count |-> 0, stored |-> FALSE, error |-> "",
              conversion_score |-> 0, risk_category |-> "",
              response |-> <<>>]

NoHealth == [status |-> "none", database_connected |-> FALSE,
             model_available |-> FALSE]

IdleInfo == [pc |-> "idle", feedback_samples_collected |-> 0,
             total_leads_scored |-> 0, model_version |-> <<>>,
             is_retraining |-> FALSE, feedback_count |-> 0,
             ready_for_retraining |-> FALSE]

\* Database.initialize_schema on an empty database
FreshStore ==
    /\ models = <<>>
    /\ other_rows = 0
    /\ system_metrics = [total_scores |-> 0, feedback_count |-> 0,
                         last_training |-> "never", last_retraining |-> "never",
                         model_version |-> <<>>]

\* a database that an earlier process bootstrapped (version 1.0 active) and
\* filled with n scored leads of other identities, each carrying an outcome
BootstrappedStore(n) ==
    /\ models = <<[version |-> model_version, auc |-> target_auc, active |-> 1]>>
    /\ other_rows = n
    /\ system_metrics = [total_scores |-> n, feedback_count |-> n,
                         last_training |-> "set", last_retraining |-> "never",
                         model_version |-> <<>>]

\* a database whose registry has k deployments behind it: 1.0 was
\* bootstrapped, each retraining gained accuracy_improvement_threshold and
\* was deployed as 1.1, 1.2, ...; n leads with an outcome are stored
DeployedStore(k, n) ==
    /\ models = [i \in 1..(k + 1) |->
                   [version |-> generate_version_chain(i - 1),
                    auc |-> target_auc
                              - (k + 1 - i) * accuracy_improvement_threshold,
                    active |-> IF i = k + 1 THEN 1 ELSE 0]]
    /\ other_rows = n
    /\ system_metrics = [total_scores |-> n, feedback_count |-> n,
                         last_training |-> "set",
                         last_retraining |-> IF k = 0 THEN "never" ELSE "set",
                         model_version |-> IF k = 0 THEN <<>>
                                           ELSE generate_version_chain(k)]

\* the process starts: cold cache, idle controller, no request in flight;
\* requests will name the identities of leads and be served by the handler
\* threads of scorers
ProcessStartFor(leads, scorers) ==
    /\ lead_scores = [l \in leads |-> NoRow]
    /\ model_cache = NoModel
    /\ retrain_lock = "free"
    /\ is_retraining = FALSE
    /\ last_check_time = "never"
    /\ last_retrain_time = "never"
    /\ rtask = [t \in RTasks |-> IdleRetrain]
    /\ bg_pending = 0
    /\ stask = [s \in scorers |-> IdleScore]
    /\ itask = "idle"
    /\ health = NoHealth
    /\ info = IdleInfo
    /\ scored_ok = {}

ProcessStartWith(leads) == ProcessStartFor(leads, STasks)

ProcessStart == ProcessStartWith(LeadIds)

\* the trained classifier gives each lead one of the scores of S
Predictor(S) == predict_proba \in [DOMAIN lead_scores -> S]

\* an empty database, or a bootstrapped one whose feedback is one short of
\* the retraining threshold or has just reached it
Init ==
    /\ \/ FreshStore
       \/ BootstrappedStore(retraining_threshold - 1)
       \/ BootstrappedStore(retraining_threshold)
    /\ ProcessStart
    /\ Predictor(ServiceScores)

\* ------------------------------------------------- RetrainingManager threads
ControllerVars == <<retrain_lock, is_retraining, last_check_time, last_retrain_time>>
StoreVars == <<models, lead_scores, other_rows, system_metrics>>
ReaderVars == <<health, info>>

\* a thread slot that is not inside a check_and_retrain call
Free(t) == rtask[t].pc \in {"idle", "done"}

\* a new call runs on the first free thread slot (which thread serves a call
\* makes no difference to the code)
Slot == [t \in RTasks |-> IF t = "r1" THEN 1 ELSE 2]
FirstFree(t) == Free(t) /\ \A u \in RTasks : Free(u) => Slot[t] <= Slot[u]

\* the part of check_and_retrain inside "with self.retrain_lock"
SectionPcs == {"check_feedback", "load_model", "get_feedback", "train",
               "deactivate", "save", "activate", "metric_training",
               "clear_cache", "metric_retraining", "metric_version"}
\* the part inside try/finally (is_retraining is True)
TryPcs == SectionPcs \ {"check_feedback", "load_model"}
\* _execute_retraining after retrain_model returned a trainer
DeployPcs == {"deactivate", "save", "activate", "metric_training",
              "clear_cache", "metric_retraining", "metric_version"}

\* faulty variant: the with-block is entered whether or not the lock is held
CanAcquireAlways(lock) == TRUE

\* threading.Lock: "with self.retrain_lock" blocks until the lock is free
CanAcquire(lock) == lock = "free"

\* faulty variant: the lock stays with the thread that leaves the block
LockKept(t) == t

\* the lock after the with-block is left, on every exit path
ReleasedLock(t) == "free"

\* faulty variant: no finally clause, the flag keeps its value when the try block is left
FinallyFlagKept(t) == is_retraining

\* "finally: self.is_retraining = False", run when the try block is left
FinallyFlag(t) == FALSE

\* faulty variant: the try block ends before the deployment
in_try_until_trained(pc) == pc \in TryPcs \ DeployPcs

\* the statements between "try:" and "finally:" of check_and_retrain
in_try(pc) == pc \in TryPcs

\* leave check_and_retrain with a result (or an exception)
Leave(t, res) ==
    /\ rtask' = [rtask EXCEPT ![t] = [IdleRetrain EXCEPT !.pc = "done", !.result = res]]
    /\ retrain_lock' = ReleasedLock(t)
    /\ is_retraining' = IF in_try(rtask[t].pc) THEN FinallyFlag(t)
                        ELSE is_retraining

\* POST /retrain: manual_retrain calls check_and_retrain and blocks for it
ManualRetrain(t) ==
    /\ FirstFree(t)
    /\ rtask' = [rtask EXCEPT ![t] = [IdleRetrain EXCEPT !.pc = "acquire"]]
    /\ UNCHANGED <<StoreVars, model_cache, ControllerVars, bg_pending, stask,
                   itask, ReaderVars, predict_proba, scored_ok>>

\* the thread started by trigger_background_retraining begins _background_task
BackgroundRetrain(t) ==
    /\ FirstFree(t)
    /\ bg_pending > 0
    /\ bg_pending' = bg_pending - 1
    /\ rtask' = [rtask EXCEPT ![t] = [IdleRetrain EXCEPT !.pc = "acquire"]]
    /\ UNCHANGED <<StoreVars, model_cache, ControllerVars, stask, itask,
                   ReaderVars, predict_proba, scored_ok>>

\* with self.retrain_lock: if self.is_retraining: return already_retraining;
\* self.last_check_time = now
Acquire(t) ==
    /\ rtask[t].pc = "acquire"
    /\ CanAcquire(retrain_lock)
    /\ IF is_retraining
       THEN /\ rtask' = [rtask EXCEPT ![t].pc = "done",
                           ![t].result = [NoResult EXCEPT
                               !.status = "already_retraining"]]
            /\ UNCHANGED <<retrain_lock, last_check_time>>
       ELSE /\ rtask' = [rtask EXCEPT ![t].pc = "check_feedback"]
            /\ retrain_lock' = t
            /\ last_check_time' = "set"
    /\ UNCHANGED <<StoreVars, model_cache, is_retraining, last_retrain_time,
                   bg_pending, stask, itask, ReaderVars, predict_proba,
                   scored_ok>>

\* feedback_count = db.get_feedback_count(); below the threshold: return
CheckFeedback(t) ==
    /\ rtask[t].pc = "check_feedback"
    /\ LET fc == get_feedback_count(lead_scores, other_rows) IN
       IF insufficient_feedback(fc)
       THEN Leave(t, [NoResult EXCEPT !.status = "insufficient_feedback",
                                      !.feedback_count = fc,
                                      !.threshold = retraining_threshold])
       ELSE /\ rtask' = [rtask EXCEPT ![t].pc = "load_model",
                                      ![t].feedback_count = fc]
            /\ UNCHANGED <<retrain_lock, is_retraining>>
    /\ UNCHANGED <<StoreVars, model_cache, last_check_time, last_retrain_time,
                   bg_pending, stask, itask, ReaderVars, predict_proba,
                   scored_ok>>

\* current_model_data = ModelTrainer.load_from_database(); none: return error;
\* else self.is_retraining = True
LoadModel(t) ==
    /\ rtask[t].pc = "load_model"
    /\ LET cur == load_from_database(models) IN
       IF cur = NoModel
       THEN Leave(t, [NoResult EXCEPT !.status = "error",
                                      !.message = "No current model found"])
       ELSE /\ rtask' = [rtask EXCEPT ![t].pc = "get_feedback",
                                      ![t].current_version = cur.version,
                                      ![t].current_auc = cur.auc]
            /\ is_retraining' = TRUE
            /\ UNCHANGED retrain_lock
    /\ UNCHANGED <<StoreVars, model_cache, last_check_time, last_retrain_time,
                   bg_pending, stask, itask, ReaderVars, predict_proba,
                   scored_ok>>

\* feedback_leads = db.get_feedback_leads(); empty: return error
GetFeedbackLeads(t) ==
    /\ rtask[t].pc = "get_feedback"
    /\ LET n == get_feedback_leads(lead_scores, other_rows) IN
       IF n = 0
       THEN /\ Leave(t, [NoResult EXCEPT !.status = "error",
                                         !.message = "No feedback data available"])
            /\ last_retrain_time' = "set"
       ELSE /\ rtask' = [rtask EXCEPT ![t].pc = "train", ![t].trained_on = n]
            /\ UNCHANGED <<retrain_lock, is_retraining, last_retrain_time>>
    /\ UNCHANGED <<StoreVars, model_cache, last_check_time, bg_pending, stask,
                   itask, ReaderVars, predict_proba, scored_ok>>

\* new_trainer = retrain_model(feedback_df, current_auc); None: no_improvement
Train(t) ==
    /\ rtask[t].pc = "train"
    /\ \E new_auc \in AucValues :
         IF retrain_model(new_auc, rtask[t].current_auc)
         THEN /\ \E ts \in Timestamps :
                   rtask' = [rtask EXCEPT ![t].pc = "deactivate",
                       ![t].new_auc = new_auc,
                       ![t].new_version =
                           generate_version(rtask[t].current_version, ts)]
              /\ UNCHANGED <<retrain_lock, is_retraining, last_retrain_time>>
         ELSE /\ Leave(t, [NoResult EXCEPT !.status = "no_improvement",
                               !.feedback_count = rtask[t].feedback_count,
                               !.old_version = rtask[t].current_version,
                               !.old_auc = rtask[t].current_auc])
              /\ last_retrain_time' = "set"
    /\ UNCHANGED <<StoreVars, model_cache, last_check_time, bg_pending, stask,
                   itask, ReaderVars, predict_proba, scored_ok>>

\* db.deactivate_all_models()
Deactivate(t) ==
    /\ rtask[t].pc = "deactivate"
    /\ models' = deactivate_all_models(models)
    /\ rtask' = [rtask EXCEPT ![t].pc = "save"]
    /\ UNCHANGED <<lead_scores, other_rows, system_metrics, model_cache,
                   ControllerVars, bg_pending, stask, itask, ReaderVars,
                   predict_proba, scored_ok>>

\* new_trainer.save_to_database(new_version): db.save_model; the INSERT
\* raises IntegrityError when the version is already a primary key
SaveModel(t) ==
    /\ rtask[t].pc = "save"
    /\ IF rtask[t].new_version \in Versions(models)
       THEN /\ Leave(t, [NoResult EXCEPT !.status = "raised",
                                         !.message = "IntegrityError"])
            /\ UNCHANGED models
       ELSE /\ models' = save_model(models, rtask[t].new_version, rtask[t].new_auc)
            /\ rtask' = [rtask EXCEPT ![t].pc = "activate"]
            /\ UNCHANGED <<retrain_lock, is_retraining>>
    /\ UNCHANGED <<lead_scores, other_rows, system_metrics, model_cache,
                   last_check_time, last_retrain_time, bg_pending, stask,
                   itask, ReaderVars, predict_proba, scored_ok>>

\* save_to_database: db.set_active_model(version)
Activate(t) ==
    /\ rtask[t].pc = "activate"
    /\ models' = set_active_model(models, rtask[t].new_version)
    /\ rtask' = [rtask EXCEPT ![t].pc = "metric_training"]
    /\ UNCHANGED <<lead_scores, other_rows, system_metrics, model_cache,
                   ControllerVars, bg_pending, stask, itask, ReaderVars,
                   predict_proba, scored_ok>>

\* save_to_database: db.update_system_metric('last_training', ...)
MetricTraining(t) ==
    /\ rtask[t].pc = "metric_training"
    /\ system_metrics' = [system_metrics EXCEPT !.last_training = "set"]
    /\ rtask' = [rtask EXCEPT ![t].pc = "clear_cache"]
    /\ UNCHANGED <<models, lead_scores, other_rows, model_cache,
                   ControllerVars, bg_pending, stask, itask, ReaderVars,
                   predict_proba, scored_ok>>

\* clear_model_cache()
ClearCache(t) ==
    /\ rtask[t].pc = "clear_cache"
    /\ model_cache' = NoModel
    /\ rtask' = [rtask EXCEPT ![t].pc = "metric_retraining"]
    /\ UNCHANGED <<StoreVars, ControllerVars, bg_pending, stask, itask,
                   ReaderVars, predict_proba, scored_ok>>

\* db.update_system_metric('last_retraining', ...)
MetricRetraining(t) ==
    /\ rtask[t].pc = "metric_retraining"
    /\ system_metrics' = [system_metrics EXCEPT !.last_retraining = "set"]
    /\ rtask' = [rtask EXCEPT ![t].pc = "metric_version"]
    /\ UNCHANGED <<models, lead_scores, other_rows, model_cache,
                   ControllerVars, bg_pending, stask, itask, ReaderVars,
                   predict_proba, scored_ok>>

\* db.update_system_metric('model_version', new_version); return success;
\* self.last_retrain_time = now; finally; the lock is released
MetricVersion(t) ==
    /\ rtask[t].pc = "metric_version"
    /\ system_metrics' = [system_metrics EXCEPT
                             !.model_version = rtask[t].new_version]
    /\ Leave(t, [NoResult EXCEPT !.status = "success",
                     !.feedback_count = rtask[t].feedback_count,
                     !.old_version = rtask[t].current_version,
                     !.new_version = rtask[t].new_version,
                     !.old_auc = rtask[t].current_auc,
                     !.new_auc = rtask[t].new_auc])
    /\ last_retrain_time' = "set"
    /\ UNCHANGED <<models, lead_scores, other_rows, model_cache,
                   last_check_time, bg_pending, stask, itask, ReaderVars,
                   predict_proba, scored_ok>>

\* the statement a thread is about to run raises (a database error such as
\* sqlite3.OperationalError, or the classifier fit failing): the exception
\* leaves check_and_retrain through finally and the with-block
RaisePcs == SectionPcs \ {"clear_cache"}

Raise(t) ==
    /\ rtask[t].pc \in RaisePcs
    /\ Leave(t, [NoResult EXCEPT !.status = "raised"])
    /\ UNCHANGED <<StoreVars, model_cache, last_check_time, last_retrain_time,
                   bg_pending, stask, itask, ReaderVars, predict_proba,
                   scored_ok>>

RetrainStep(t) ==
    \/ ManualRetrain(t) \/ BackgroundRetrain(t) \/ Acquire(t)
    \/ CheckFeedback(t) \/ LoadModel(t) \/ GetFeedbackLeads(t) \/ Train(t)
    \/ Deactivate(t) \/ SaveModel(t) \/ Activate(t) \/ MetricTraining(t)
    \/ ClearCache(t) \/ MetricRetraining(t) \/ MetricVersion(t) \/ Raise(t)

\* ------------------------------------------------ scoring workflow (Score())
OtherVarsOfScore == <<ControllerVars, rtask, itask, ReaderVars>>

\* faulty variant: the registry is read on every call
cache_is_none_always(cache) == TRUE

\* get_cached_model: if _model_cache is None
cache_is_none(cache) == cache = NoModel

\* LeadScoringAgent.score_lead: the initial state; validate_node and
\* preprocess_node touch nothing shared; score_node calls get_cached_model,
\* whose first step is the test "if _model_cache is None"
Score(s, lead, outcome) ==
    /\ stask[s].pc \in {"idle", "done"}
    /\ stask' = [stask EXCEPT ![s] = [IdleScore EXCEPT
                    !.pc = IF cache_is_none(model_cache) THEN "load"
                           ELSE "return_cache",
                    !.lead_id = lead,
                    !.actual_outcome = outcome]]
    /\ UNCHANGED <<StoreVars, model_cache, bg_pending, OtherVarsOfScore,
                   predict_proba, scored_ok>>

\* ------------------------------------------- POST /score request validation
\* LeadSource: the values the enum accepts
LeadSource == {"Webinar", "Cold Call", "Referral", "Advertisement", "Organic",
               "Trade Show", "Email Campaign"}

\* str.strip() on a string given as its characters
RECURSIVE lstrip(_)
lstrip(v) == IF v # <<>> /\ Head(v) = " " THEN lstrip(Tail(v)) ELSE v

RECURSIVE rstrip(_)
rstrip(v) == IF v # <<>> /\ v[Len(v)] = " "
             THEN rstrip(SubSeq(v, 1, Len(v) - 1)) ELSE v

strip(v) == rstrip(lstrip(v))

\* the string with the characters of v
RECURSIVE Join(_)
Join(v) == IF v = <<>> THEN "" ELSE Head(v) \o Join(Tail(v))

\* faulty variant: no upper limit on age
age_ok_no_upper(age) == age >= 18

\* age: Field(ge=18, le=100)
age_ok(age) == age >= 18 /\ age <= 100

\* email_opens, website_visits, content_downloads, days_since_contact:
\* Field(ge=0)
counter_ok(n) == n >= 0

CounterFields == {"email_opens", "website_visits", "content_downloads",
                  "days_since_contact"}

\* lead_id: Field(min_length=1, max_length=100), then validate_lead_id:
\* "if not v.strip(): raise ValueError"
lead_id_ok(v) == Len(v) >= 1 /\ Len(v) <= 100 /\ strip(v) # <<>>

\* the fields of a request body whose validation fails; pydantic validates
\* every field and reports one error per failing field
validation_errors(req) ==
    {f \in {"lead_id"} : ~lead_id_ok(req.lead_id)}
    \cup {f \in {"age"} : ~age_ok(req.age)}
    \cup {f \in CounterFields : ~counter_ok(req[f])}
    \cup {f \in {"lead_source"} : req.lead_source \notin LeadSource}

\* request bodies: ages around both limits, counters around 0, a lead
\* source outside the enum, identities that are empty, blank or padded
RawLeadIds == { <<>>, <<" ">>, <<"L", "1">>, <<" ", "L", "1", " ">> }

Requests ==
    [lead_id : RawLeadIds, age : {17, 18, 100, 101},
     email_opens : {-1, 0}, website_visits : {0}, content_downloads : {0},
     days_since_contact : {-1, 0}, lead_source : {"Webinar", "Partner"},
     actual_outcome : Outcomes]

\* POST /score: FastAPI builds LeadScoreRequest from the body; a validation
\* failure is answered with 422 and the list of errors before the handler
\* is entered, else score_lead(request) runs with the stripped lead_id
PostScore(s, req) ==
    IF validation_errors(req) # {}
    THEN /\ stask[s].pc \in {"idle", "done"}
         /\ stask' = [stask EXCEPT ![s] = [IdleScore EXCEPT
                         !.pc = "done",
                         !.error = "Unprocessable Entity",
                         !.response = [status |-> 422,
                                       detail |-> validation_errors(req)]]]
         /\ UNCHANGED <<StoreVars, model_cache, bg_pending, OtherVarsOfScore,
                        predict_proba, scored_ok>>
    ELSE Score(s, Join(strip(req.lead_id)), req.actual_outcome)

\* get_cached_model: ModelTrainer.load_from_database()
LoadCache(s) ==
    /\ stask[s].pc = "load"
    /\ stask' = [stask EXCEPT ![s].pc = "populate",
                              ![s].loaded = load_from_database(models)]
    /\ UNCHANGED <<StoreVars, model_cache, bg_pending, OtherVarsOfScore,
                   predict_proba, scored_ok>>

\* get_cached_model: _model_cache = <what was loaded>
PopulateCache(s) ==
    /\ stask[s].pc = "populate"
    /\ model_cache' = stask[s].loaded
    /\ stask' = [stask EXCEPT ![s].pc = "return_cache"]
    /\ UNCHANGED <<StoreVars, bg_pending, OtherVarsOfScore, predict_proba,
                   scored_ok>>

\* get_cached_model: return _model_cache (the global is read again);
\* score_node: no model is the error "No trained model available", else the
\* score, the category and metadata['version'] go into the state
ReturnCache(s) ==
    /\ stask[s].pc = "return_cache"
    /\ stask' = [stask EXCEPT ![s].pc = "insert",
                    ![s].model_data = model_cache,
                    ![s].error = IF model_cache = NoModel
                                 THEN "No trained model available" ELSE "",
                    ![s].conversion_score =
                        IF model_cache = NoModel THEN 0
                        ELSE predict_proba[stask[s].lead_id],
                    ![s].risk_category =
                        IF model_cache = NoModel THEN ""
                        ELSE risk_category(predict_proba[stask[s].lead_id])]
    /\ UNCHANGED <<StoreVars, model_cache, bg_pending, OtherVarsOfScore,
                   predict_proba, scored_ok>>

\* Database.insert_lead_score: INSERT OR REPLACE on lead_id
insert_lead_score(ls, lead, outcome) ==
    [ls EXCEPT ![lead] = [present |-> TRUE, actual_outcome |-> outcome]]

\* store_node: db.insert_lead_score(lead_data).  The graph has no
\* conditional edge, so store_node also runs after score_node failed; then
\* conversion_score is None, the INSERT violates NOT NULL and the exception
\* is caught: error = "Storage failed", stored = False
InsertLead(s) ==
    /\ stask[s].pc = "insert"
    /\ IF stask[s].model_data = NoModel
       THEN /\ stask' = [stask EXCEPT ![s].pc = "learn",
                                      ![s].error = "Storage failed"]
            /\ UNCHANGED lead_scores
       ELSE /\ lead_scores' = insert_lead_score(lead_scores, stask[s].lead_id,
                                  stask[s].actual_outcome)
            /\ stask' = [stask EXCEPT ![s].pc = "total"]
    /\ UNCHANGED <<models, other_rows, system_metrics, model_cache,
                   bg_pending, OtherVarsOfScore, predict_proba, scored_ok>>

\* store_node: total_scores = db.get_total_scores()
ReadTotal(s) ==
    /\ stask[s].pc = "total"
    /\ stask' = [stask EXCEPT ![s].pc = "update_total",
                    ![s].total_scores = get_total_scores(lead_scores, other_rows)]
    /\ UNCHANGED <<StoreVars, model_cache, bg_pending, OtherVarsOfScore,
                   predict_proba, scored_ok>>

\* faulty variant: the feedback counter is refreshed for every request
has_outcome_always(outcome) == TRUE

\* store_node: if request.actual_outcome is not None
has_outcome(outcome) == outcome # "null"

\* store_node: db.update_system_metric('total_scores', ...); without an
\* outcome the node is done: stored = True
UpdateTotal(s) ==
    /\ stask[s].pc = "update_total"
    /\ system_metrics' = [system_metrics EXCEPT
                             !.total_scores = stask[s].total_scores]
    /\ stask' = [stask EXCEPT
                    ![s].pc = IF has_outcome(stask[s].actual_outcome)
                              THEN "feedback" ELSE "learn",
                    ![s].stored = ~has_outcome(stask[s].actual_outcome)]
    /\ UNCHANGED <<models, lead_scores, other_rows, model_cache, bg_pending,
                   OtherVarsOfScore, predict_proba, scored_ok>>

\* store_node: feedback_count = db.get_feedback_count()
ReadFeedback(s) ==
    /\ stask[s].pc = "feedback"
    /\ stask' = [stask EXCEPT ![s].pc = "update_feedback",
                    ![s].feedback_count =
                        get_feedback_count(lead_scores, other_rows)]
    /\ UNCHANGED <<StoreVars, model_cache, bg_pending, OtherVarsOfScore,
                   predict_proba, scored_ok>>

\* store_node: db.update_system_metric('feedback_count', ...); stored = True
UpdateFeedback(s) ==
    /\ stask[s].pc = "update_feedback"
    /\ system_metrics' = [system_metrics EXCEPT
                             !.feedback_count = stask[s].feedback_count]
    /\ stask' = [stask EXCEPT ![s].pc = "learn", ![s].stored = TRUE]
    /\ UNCHANGED <<models, lead_scores, other_rows, model_cache, bg_pending,
                   OtherVarsOfScore, predict_proba, scored_ok>>

\* store_node: a database call raises; the exception is caught:
\* error = "Storage failed", stored = False; state['feedback_count'], which
\* is assigned after the last database call only, keeps its initial 0
StorePcs == {"insert", "total", "update_total", "feedback", "update_feedback"}

StoreFails(s) ==
    /\ stask[s].pc \in StorePcs
    /\ stask' = [stask EXCEPT ![s].pc = "learn", ![s].stored = FALSE,
                              ![s].feedback_count = 0,
                              ![s].error = "Storage failed"]
    /\ UNCHANGED <<StoreVars, model_cache, bg_pending, OtherVarsOfScore,
                   predict_proba, scored_ok>>

\* faulty variant: the version is taken from the cache when the response is
\* built
cache_model_version(model_data, cache) == cache.version

\* score_node: state['model_version'] = metadata['version'], the metadata of
\* the tuple get_cached_model returned to this request
state_model_version(model_data, cache) == model_data.version

\* faulty variant: the retraining runs in the request thread, which has to
\* wait for the lock
trigger_inline(lock) == lock = "free"

\* trigger_background_retraining: Thread(...).start() returns at once,
\* whoever holds the lock
trigger_background_retraining(lock) == TRUE

\* learn_node: at or over the threshold, trigger_background_retraining()
\* starts a daemon thread; respond_node and score_lead: an error in the state
\* is raised to the caller, else the response carries the score rounded to
\* 4 decimals, state['risk_category'] and state['model_version']
LearnRespond(s) ==
    /\ stask[s].pc = "learn"
    /\ stask[s].feedback_count >= retraining_threshold => bg_pending < MaxPending
    /\ stask[s].feedback_count >= retraining_threshold
          => trigger_background_retraining(retrain_lock)
    /\ bg_pending' = IF stask[s].feedback_count >= retraining_threshold
                     THEN bg_pending + 1 ELSE bg_pending
    /\ stask' = [stask EXCEPT ![s] = [IdleScore EXCEPT !.pc = "done",
                    !.stored = stask[s].stored, !.error = stask[s].error,
                    !.response = respond(stask[s].error,
                        [lead_id |-> stask[s].lead_id,
                         conversion_score |-> round4(stask[s].conversion_score),
                         risk_category |-> stask[s].risk_category,
                         model_version |->
                             state_model_version(stask[s].model_data,
                                                 model_cache)])]]
    /\ scored_ok' = IF stask[s].error = ""
                    THEN scored_ok \cup {stask[s].lead_id} ELSE scored_ok
    /\ UNCHANGED <<StoreVars, model_cache, OtherVarsOfScore, predict_proba>>

ScoreStep(s) ==
    \/ \E lead \in DOMAIN lead_scores, outcome \in Outcomes :
          Score(s, lead, outcome)
    \/ LoadCache(s) \/ PopulateCache(s) \/ ReturnCache(s)
    \/ InsertLead(s) \/ ReadTotal(s) \/ UpdateTotal(s) \/ ReadFeedback(s)
    \/ UpdateFeedback(s) \/ LearnRespond(s)

\* ------------------------------------- train_initial_model (python model.py)
OtherVarsOfInitial == <<lead_scores, other_rows, model_cache, ControllerVars,
                        rtask, bg_pending, stask, ReaderVars>>

\* train_initial_model: the script trains on synthetic data, then
\* save_to_database(settings.model_version): db.save_model; IntegrityError
\* when the version is already in the registry (the script ends)
InitialSave ==
    /\ itask = "idle"
    /\ IF model_version \in Versions(models)
       THEN itask' = "idle" /\ UNCHANGED models
       ELSE /\ \E auc \in InitialAucValues :
                 models' = save_model(models, model_version, auc)
            /\ itask' = "activate"
    /\ UNCHANGED <<system_metrics, OtherVarsOfInitial, predict_proba,
                   scored_ok>>

\* save_to_database: db.set_active_model(version)
InitialActivate ==
    /\ itask = "activate"
    /\ models' = set_active_model(models, model_version)
    /\ itask' = "metric"
    /\ UNCHANGED <<system_metrics, OtherVarsOfInitial, predict_proba,
                   scored_ok>>

\* save_to_database: db.update_system_metric('last_training', ...)
InitialMetric ==
    /\ itask = "metric"
    /\ system_metrics' = [system_metrics EXCEPT !.last_training = "set"]
    /\ itask' = "idle"
    /\ UNCHANGED <<models, OtherVarsOfInitial, predict_proba, scored_ok>>

InitialStep == InitialSave \/ InitialActivate \/ InitialMetric

\* ------------------------------------------------------------ Health, Info
\* health_check: database_connected from db.get_total_scores() (an exception
\* is swallowed), then model_available from ModelTrainer.load_from_database(),
\* which is outside the inner try: when that query cannot reach the database
\* the outer except turns the exception into HTTP 500.  Otherwise healthy
\* (200) when both flags are true, else degraded (503 with the same body)
Health ==
    /\ \E connected \in BOOLEAN, load_ok \in BOOLEAN :
         LET model_available == load_from_database(models) # NoModel IN
         health' = IF ~load_ok THEN [NoHealth EXCEPT !.status = "error"]
                   ELSE [status |-> IF connected /\ model_available
                                    THEN "healthy" ELSE "degraded",
                         database_connected |-> connected,
                         model_available |-> model_available]
    /\ UNCHANGED <<StoreVars, model_cache, ControllerVars, rtask, bg_pending,
                   stask, itask, info, predict_proba, scored_ok>>

OtherVarsOfInfo == <<StoreVars, model_cache, ControllerVars, rtask, bg_pending,
                     stask, itask, health>>

\* Database.get_model_info: the active row's version, as system_info uses it
\* (settings.model_version when there is no active row)
get_model_info(ms) ==
    IF load_from_database(ms) = NoModel THEN model_version
    ELSE load_from_database(ms).version

\* system_info: metrics = db.get_system_metrics()
InfoMetrics ==
    /\ info.pc \in {"idle", "done"}
    /\ info' = [IdleInfo EXCEPT !.pc = "model_info",
                   !.feedback_samples_collected = system_metrics.feedback_count,
                   !.total_leads_scored = system_metrics.total_scores]
    /\ UNCHANGED <<OtherVarsOfInfo, predict_proba, scored_ok>>

\* system_info: model_info = db.get_model_info()
InfoModel ==
    /\ info.pc = "model_info"
    /\ info' = [info EXCEPT !.pc = "status",
                            !.model_version = get_model_info(models)]
    /\ UNCHANGED <<OtherVarsOfInfo, predict_proba, scored_ok>>

\* faulty variant: ready only over the threshold
ready_over_threshold(feedback_count) == feedback_count > retraining_threshold

\* get_status: 'ready_for_retraining': feedback_count >= threshold
ready_for_retraining(feedback_count) == feedback_count >= retraining_threshold

\* system_info: retraining_manager.get_status(): one COUNT query, the
\* controller's flag read without the lock
InfoStatus ==
    /\ info.pc = "status"
    /\ LET fc == get_feedback_count(lead_scores, other_rows) IN
       info' = [info EXCEPT !.pc = "done",
                            !.is_retraining = is_retraining,
                            !.feedback_count = fc,
                            !.ready_for_retraining = ready_for_retraining(fc)]
    /\ UNCHANGED <<OtherVarsOfInfo, predict_proba, scored_ok>>

InfoStep == InfoMetrics \/ InfoModel \/ InfoStatus

\* --------------------------------------------------------------------- Next
Next ==
    \/ \E t \in RTasks : RetrainStep(t)
    \/ \E s \in STasks : ScoreStep(s)
    \/ InitialStep

Spec == Init /\ [][Next]_vars

\* the running service on a bootstrapped database at the retraining
\* threshold, with Health() requests
InitHealth ==
    /\ BootstrappedStore(retraining_threshold)
    /\ ProcessStart
    /\ Predictor(ServiceScores)

NextHealth ==
    \/ RetrainStep("r1")
    \/ \E s \in STasks : ScoreStep(s)
    \/ Health

SpecHealth == InitHealth /\ [][NextHealth]_vars

\* the scoring pipeline on its own with the scores at the category
\* boundaries, store failures included
InitScore ==
    /\ \/ FreshStore
       \/ BootstrappedStore(retraining_threshold - 1)
    /\ ProcessStart
    /\ Predictor(ScoreValues)

NextScore ==
    \/ \E s \in STasks : ScoreStep(s) \/ StoreFails(s)
    \/ RetrainStep("r1")
    \/ InitialStep

SpecScore == InitScore /\ [][NextScore]_vars

\* the service when retraining is started by scoring requests only (no
\* POST /retrain): every check_and_retrain call is a triggered one
RetrainBody(t) ==
    \/ Acquire(t) \/ CheckFeedback(t) \/ LoadModel(t) \/ GetFeedbackLeads(t)
    \/ Train(t) \/ Deactivate(t) \/ SaveModel(t) \/ Activate(t)
    \/ MetricTraining(t) \/ ClearCache(t) \/ MetricRetraining(t)
    \/ MetricVersion(t) \/ Raise(t)

InitTrigger ==
    /\ \/ BootstrappedStore(retraining_threshold - 1)
       \/ BootstrappedStore(retraining_threshold)
    /\ ProcessStart
    /\ Predictor(ServiceScores)

NextTrigger ==
    \/ \E t \in RTasks : BackgroundRetrain(t) \/ RetrainBody(t)
    \/ \E s \in STasks : ScoreStep(s)

SpecTrigger == InitTrigger /\ [][NextTrigger]_vars

\* the scoring pipeline serving one request at a time for two identities,
\* on a store that was bootstrapped and holds no lead yet
InitLeads ==
    /\ BootstrappedStore(0)
    /\ ProcessStartWith(LeadPair)
    /\ Predictor(ServiceScores)

NextLeads == \E s \in STasks : ScoreStep(s)

SpecLeads == InitLeads /\ [][NextLeads]_vars

\* POST /retrain calls, one at a time, on a registry with up to MaxDeployed
\* deployments behind it and the feedback threshold reached
InitVersions ==
    /\ \E k \in 0..MaxDeployed : DeployedStore(k, retraining_threshold)
    /\ ProcessStart
    /\ Predictor(ServiceScores)

NextVersions == ManualRetrain("r1") \/ RetrainBody("r1")

SpecVersions == InitVersions /\ [][NextVersions]_vars

\* retraining runs over a registry whose active row carries an arbitrary
\* version string (the column is free TEXT): _generate_version on every
\* string of up to MaxVersionLen characters
VersionChars == {"1", "9", ".", "a", "-"}
VersionStrings == UNION {[1..k -> VersionChars] : k \in 0..MaxVersionLen}

InitGenerate ==
    /\ \E v \in VersionStrings :
          models = <<[version |-> v, auc |-> target_auc, active |-> 1]>>
    /\ other_rows = retraining_threshold
    /\ system_metrics = [total_scores |-> retraining_threshold,
                         feedback_count |-> retraining_threshold,
                         last_training |-> "set", last_retraining |-> "never",
                         model_version |-> <<>>]
    /\ ProcessStart
    /\ Predictor(ServiceScores)

NextGenerate == ManualRetrain("r1") \/ RetrainBody("r1")

SpecGenerate == InitGenerate /\ [][NextGenerate]_vars

\* get_cached_model called by one request at a time, with the initial
\* training script as the only writer of the registry
InitCache ==
    /\ \/ FreshStore
       \/ BootstrappedStore(0)
    /\ ProcessStart
    /\ Predictor(ServiceScores)

NextCache == ScoreStep("s1") \/ InitialStep

SpecCache == InitCache /\ [][NextCache]_vars

\* the service with Info() requests: scoring requests and the retraining
\* they trigger, on a store one short of the retraining threshold
InitInfo ==
    /\ BootstrappedStore(retraining_threshold - 1)
    /\ ProcessStart
    /\ Predictor(ServiceScores)

NextInfo ==
    \/ \E s \in STasks : ScoreStep(s)
    \/ BackgroundRetrain("r1") \/ RetrainBody("r1")
    \/ InfoStep

SpecInfo == InitInfo /\ [][NextInfo]_vars

\* the pipeline behind POST /score with request validation, on a
\* bootstrapped store
ScoreBody(s) ==
    \/ LoadCache(s) \/ PopulateCache(s) \/ ReturnCache(s)
    \/ InsertLead(s) \/ ReadTotal(s) \/ UpdateTotal(s) \/ ReadFeedback(s)
    \/ UpdateFeedback(s) \/ LearnRespond(s)

InitValidate ==
    /\ BootstrappedStore(0)
    /\ ProcessStart
    /\ Predictor(ServiceScores)

NextValidate ==
    \E s \in STasks :
        \/ \E req \in Requests : PostScore(s, req)
        \/ ScoreBody(s)

SpecValidate == InitValidate /\ [][NextValidate]_vars

\* the service under fair scheduling: a thread inside the with-block keeps
\* running (every statement returns or raises), and a thread blocked on
\* retrain_lock gets the lock if it is released again and again.  Scoring
\* requests carry feedback, the kind that triggers background retraining
RetrainRun(t) ==
    \/ CheckFeedback(t) \/ LoadModel(t) \/ GetFeedbackLeads(t) \/ Train(t)
    \/ Deactivate(t) \/ SaveModel(t) \/ Activate(t) \/ MetricTraining(t)
    \/ ClearCache(t) \/ MetricRetraining(t) \/ MetricVersion(t) \/ Raise(t)

InitFair ==
    /\ BootstrappedStore(retraining_threshold - 1)
    /\ ProcessStart
    /\ Predictor(ServiceScores)

NextFair ==
    \/ \E t \in RTasks : RetrainStep(t)
    \/ \E s \in STasks :
          \/ \E lead \in DOMAIN lead_scores : Score(s, lead, "true")
          \/ ScoreBody(s)

Fairness ==
    \A t \in RTasks : WF_vars(RetrainRun(t)) /\ SF_vars(Acquire(t))

SpecFair == InitFair /\ [][NextFair]_vars /\ Fairness

\* two concurrent POST /score handlers and two identities, on a store that
\* was bootstrapped and holds no lead yet
InitRace ==
    /\ BootstrappedStore(0)
    /\ ProcessStartFor(LeadPair, ScorerPair)
    /\ Predictor(ServiceScores)

NextRace == \E s \in ScorerPair : ScoreStep(s)

SpecRace == InitRace /\ [][NextRace]_vars

\* ------------------------------------------------------------------- claims
InSection(t) == rtask[t].pc \in SectionPcs

\* C1: at any instant at most one task is inside the check-train-deploy
\* section of check_and_retrain (between guard acquisition and release), and
\* that task is the holder of retrain_lock.
C1_MutualExclusion ==
    /\ Cardinality({t \in RTasks : InSection(t)}) <= 1
    /\ \A t \in RTasks : InSection(t) => retrain_lock = t

\* C1 witness: one call is deploying while another call waits for the guard
C1_Witness ==
    \E t, u \in RTasks :
        /\ t # u
        /\ rtask[t].pc \in DeployPcs
        /\ rtask[u].pc = "acquire"

\* the call of thread t returns already_retraining now
ReturnsAlreadyRetraining(t) ==
    Acquire(t) /\ rtask'[t].result.status = "already_retraining"

\* C2: of two concurrent check_and_retrain calls (feedback at the threshold,
\* an active model present) one is in TRAINING and the other, finding the
\* guard held, can return already_retraining at once, without waiting for
\* the first and without a training run of its own.
C2_SecondCallerReturnsAtOnce ==
    \A t, u \in RTasks :
        (t # u /\ rtask[t].pc = "acquire" /\ rtask[u].pc \in TryPcs)
            => ENABLED ReturnsAlreadyRetraining(t)

\* thread t takes a step
StepOf(t) == rtask'[t] # rtask[t]

\* C3: a retraining run writes the registry (or clears the cache) only when
\* new_auc - current_auc >= accuracy_improvement_threshold, and the step that
\* returns no_improvement comes straight from training and leaves the
\* registry rows, the active flags and the cache as they are.
C3_DeployOnlyOnImprovement ==
    [][\A t \in RTasks :
        /\ (StepOf(t) /\ (models' # models \/ model_cache' # model_cache))
              => /\ rtask[t].pc \in DeployPcs
                 /\ rtask[t].new_auc - rtask[t].current_auc
                        >= accuracy_improvement_threshold
        /\ (StepOf(t) /\ rtask'[t].result.status = "no_improvement")
              => /\ rtask[t].pc = "train"
                 /\ models' = models
                 /\ model_cache' = model_cache]_vars

\* C3 witness: a run ended no_improvement with a model in the cache
C3_Witness ==
    \E t \in RTasks :
        /\ rtask[t].pc = "done"
        /\ rtask[t].result.status = "no_improvement"
        /\ model_cache # NoModel
        /\ ActiveVersions(models) = {rtask[t].result.old_version}

\* the number of lead_scores rows with an outcome
FeedbackNow == other_rows + Cardinality(FeedbackRows(lead_scores))

\* C4: a check_and_retrain call that reads feedback_count < retraining_threshold
\* returns insufficient_feedback with that count and the threshold, and
\* neither that step nor the guard acquisition before it changes the registry
\* or the cache.
C4_InsufficientFeedback ==
    [][\A t \in RTasks :
        /\ (StepOf(t) /\ rtask[t].pc = "check_feedback"
              /\ FeedbackNow < retraining_threshold
              /\ rtask'[t].result.status # "raised")
              => /\ rtask'[t].pc = "done"
                 /\ rtask'[t].result.status = "insufficient_feedback"
                 /\ rtask'[t].result.feedback_count = FeedbackNow
                 /\ rtask'[t].result.threshold = retraining_threshold
        /\ (StepOf(t) /\ rtask[t].pc \in {"acquire", "check_feedback"})
              => models' = models /\ model_cache' = model_cache]_vars

\* C4 witness: a call returned insufficient_feedback while the registry held
\* an active model and the cache was populated
C4_Witness ==
    \E t \in RTasks :
        /\ rtask[t].pc = "done"
        /\ rtask[t].result.status = "insufficient_feedback"
        /\ rtask[t].result.feedback_count = retraining_threshold - 1
        /\ ActiveVersions(models) # {}
        /\ model_cache # NoModel

\* C5: once the registry holds a model, no reader of the active model
\* observes zero active models: not Health(), not a Score() loading into an
\* empty cache, not the CHECKING step of Retrain().
C5_ReadersSeeActive ==
    [][models # <<>> =>
        /\ (health' # health /\ health'.status = "degraded")
              => health'.model_available
        /\ \A s \in STasks :
              (stask[s].pc = "load" /\ stask'[s].pc = "populate")
                  => stask'[s].loaded # NoModel
        /\ \A t \in RTasks :
              (StepOf(t) /\ rtask[t].pc = "load_model")
                  => rtask'[t].result.message # "No current model found"]_vars

\* C6: when a retraining run fails during TRAINING or DEPLOYING, the version
\* that was active when the run started is still the registry's active
\* version.
C6_FailedRunKeepsActive ==
    [][\A t \in RTasks :
        (StepOf(t) /\ rtask[t].pc \in TryPcs
            /\ rtask'[t].result.status = "raised")
            => ActiveVersions(models') = {rtask[t].current_version}]_vars

\* C7: in every reachable state of the registry at most one version has
\* active = 1.
C7_AtMostOneActive == Cardinality(ActiveRows(models)) <= 1

\* C7 witness: a deployment added a second version and one row is active
C7_Witness ==
    /\ Len(models) = 2
    /\ Cardinality(ActiveRows(models)) = 1
    /\ models[1].active = 0

\* C8: after check_and_retrain exits by any path the guard is free and
\* is_retraining is false: a finished call does not hold the lock, and with
\* no call inside the section the lock is free and the flag is down.
C8_GuardReleased ==
    /\ \A t \in RTasks : rtask[t].pc = "done" => retrain_lock # t
    /\ (\A t \in RTasks : ~InSection(t))
          => (retrain_lock = "free" /\ is_retraining = FALSE)

\* C8 witness: a call left through an exception and another call has
\* acquired the guard after it
C8_Witness ==
    \E t, u \in RTasks :
        /\ t # u
        /\ rtask[t].pc = "done"
        /\ rtask[t].result.status = "raised"
        /\ rtask[u].pc = "train"

\* C9: at the moment a retraining run returns success with new_version, the
\* registry's active version is new_version, the old version is still in the
\* registry with active = 0, Info() reports new_version, and a Score() call
\* started now uses new_version.
C9_AfterSuccess ==
    [][\A t \in RTasks :
        (StepOf(t) /\ rtask'[t].result.status = "success")
            => LET new == rtask'[t].result.new_version
                   old == rtask'[t].result.old_version
               IN /\ ActiveVersions(models') = {new}
                  /\ old \in Versions(models')
                  /\ old \notin ActiveVersions(models')
                  /\ get_model_info(models') = new
                  /\ get_cached_model(model_cache', models').version = new]_vars

\* a deployment has cleared the cache
CacheInvalidated ==
    \E t \in RTasks :
        \/ rtask[t].pc \in {"metric_retraining", "metric_version"}
        \/ rtask[t].pc = "done" /\ rtask[t].result.status = "success"

\* a deployment is between its deactivate step and its cache invalidation
InSwap ==
    \E t \in RTasks :
        rtask[t].pc \in {"save", "activate", "metric_training", "clear_cache"}

\* C10: once a deployment has invalidated the cache, and outside the swap of a
\* later deployment, the cache is empty or holds a version the registry marks
\* active.
C10_CacheNeverStale ==
    (CacheInvalidated /\ ~InSwap)
        => (model_cache = NoModel
            \/ model_cache.version \in ActiveVersions(models))

\* C11: after every completed Score() request that stored its lead, the
\* feedback_count counter in system_metrics equals the number of lead_scores
\* rows whose actual_outcome is non-null.
C11_FeedbackCountExact ==
    \A s \in STasks :
        (stask[s].pc = "done" /\ stask[s].stored)
            => system_metrics.feedback_count = FeedbackNow

\* C12: re-scoring an identity that has a row, with no outcome supplied,
\* leaves the stored actual_outcome of that identity as it was.
C12_OutcomeKeptOnRescore ==
    [][\A s \in STasks :
        (stask[s].pc = "insert" /\ stask'[s].pc = "total"
            /\ stask[s].actual_outcome = "null"
            /\ lead_scores[stask[s].lead_id].present)
            => lead_scores'[stask[s].lead_id].actual_outcome
                   = lead_scores[stask[s].lead_id].actual_outcome]_vars

\* C13: once a stage of a scoring request has failed, no later stage changes
\* the error: the error the caller gets is the first failure.
C13_FirstErrorSurfaces ==
    [][\A s \in STasks :
        (stask[s].error # "" /\ stask[s].pc \notin {"idle", "done"}
            /\ stask'[s] # stask[s])
            => stask'[s].error = stask[s].error]_vars

\* C14: a Score() request returns a response only if its lead record was
\* committed to lead_scores and no stage failed; a request whose store stage
\* failed returns no response.
C14_ScoreOnlyIfStored ==
    [][\A s \in STasks :
        (stask[s].pc = "learn" /\ stask'[s].pc = "done")
            => /\ stask'[s].response # <<>>
                    => /\ stask[s].stored
                       /\ stask[s].error = ""
                       /\ lead_scores[stask[s].lead_id].present
               /\ ~stask[s].stored => stask'[s].response = <<>>]_vars

\* C14 witness: with a model in the cache the store stage failed and the
\* request ended without a response
C14_Witness ==
    \E s \in STasks :
        /\ stask[s].pc = "done"
        /\ stask[s].error = "Storage failed"
        /\ stask[s].response = <<>>
        /\ model_cache # NoModel

\* C15: in every successful Score() response the risk_category is the
\* category of the returned, 4-decimal-rounded conversion_score under the
\* fixed thresholds (high from 0.7, medium from 0.4, low below).
C15_CategoryMatchesReturnedScore ==
    \A s \in STasks :
        (stask[s].pc = "done" /\ stask[s].response # <<>>)
            => stask[s].response.risk_category
                   = risk_category(stask[s].response.conversion_score)

\* C16: lead_scores holds one row per identity, re-scoring an identity
\* replaces its row instead of adding one, and with no request in flight the
\* number of rows equals the number of distinct identities ever successfully
\* scored (the rows of the bootstrapped store were all scored successfully).
C16_RowsAreScoredIdentities ==
    /\ [][\A s \in STasks :
            (stask[s].pc = "insert" /\ stask'[s].pc = "total")
                => get_total_scores(lead_scores', other_rows')
                     = get_total_scores(lead_scores, other_rows)
                       + (IF lead_scores[stask[s].lead_id].present
                          THEN 0 ELSE 1)]_vars
    /\ []((\A s \in STasks : stask[s].pc \in {"idle", "done"})
            => get_total_scores(lead_scores, other_rows)
                 = other_rows + Cardinality(scored_ok))

\* the result shapes a check_and_retrain caller is promised
ResultShapes == {"success", "no_improvement", "insufficient_feedback",
                 "already_retraining", "error"}

\* C17: a failure during TRAINING or DEPLOYING reaches the caller of
\* check_and_retrain as a result with status error: a call that ends from
\* inside the try block ends with one of the result shapes.
C17_FailureIsErrorResult ==
    [][\A t \in RTasks :
        (rtask[t].pc \in TryPcs /\ rtask'[t].pc = "done")
            => rtask'[t].result.status \in ResultShapes]_vars

\* the request is about to start a background thread and the bound on
\* started, not yet running threads is reached
TriggerCapped(s) ==
    /\ stask[s].pc = "learn"
    /\ stask[s].feedback_count >= retraining_threshold
    /\ bg_pending >= MaxPending

\* C18: a scoring request never waits on the retraining guard: whatever the
\* state of the retraining threads and of the lock, the next stage of every
\* scoring request can run, the stage that triggers a background retraining
\* included.
C18_ScoringNeverWaits ==
    \A s \in STasks : ~TriggerCapped(s) => ENABLED ScoreStep(s)

\* C18 witness: a deployment holds the lock while a request with a populated
\* cache is about to trigger a background retraining
C18_Witness ==
    \E s \in STasks, t \in RTasks :
        /\ rtask[t].pc \in DeployPcs
        /\ retrain_lock = t
        /\ stask[s].pc = "learn"
        /\ stask[s].feedback_count >= retraining_threshold
        /\ bg_pending < MaxPending
        /\ model_cache # NoModel

\* the request ends and starts a background retraining thread
Signals(s) ==
    /\ stask[s].pc = "learn"
    /\ stask'[s].pc = "done"
    /\ bg_pending' = bg_pending + 1

\* C19: a scoring request signals the retraining controller only when its own
\* persisted update brought feedback_count from below the threshold to at or
\* above it.  One insert adds at most one row with an outcome, so such a
\* request carries an outcome and has read a feedback_count that is exactly
\* the threshold.
C19_SignalOnlyOnCrossing ==
    [][\A s \in STasks :
        Signals(s) => /\ stask[s].actual_outcome # "null"
                      /\ stask[s].feedback_count = retraining_threshold]_vars

\* C20: the CHECKING step of a run that a scoring request triggered after
\* observing feedback_count = n >= threshold reads a feedback_count >= n, so
\* at least the threshold (every run of SpecTrigger is a triggered one).
C20_CheckSeesTriggerCount ==
    [][\A t \in RTasks :
        (rtask[t].pc = "check_feedback" /\ StepOf(t))
            => FeedbackNow >= retraining_threshold]_vars
\* C21: total_scores and feedback_count of system_metrics never decrease,
\* over any sequence or interleaving of Score() requests.
C21_CountersNeverDecrease ==
    [][/\ system_metrics'.total_scores >= system_metrics.total_scores
       /\ system_metrics'.feedback_count >= system_metrics.feedback_count]_vars

\* C25: with no other request running, a Score() request with an outcome
\* for an identity that is not stored yet raises the feedback_count metric
\* (Info().feedback_samples_collected) by exactly 1, whatever requests were
\* completed before it.  With one request at a time and no failing request
\* the identity is new exactly when no response was returned for it yet.
C25_NewFeedbackAddsOne ==
    [][\A s \in STasks :
          (/\ stask[s].pc = "update_feedback"
           /\ stask'[s].pc = "learn"
           /\ stask[s].lead_id \notin scored_ok)
          => system_metrics'.feedback_count
                 = system_metrics.feedback_count + 1]_vars

\* C22: across successive deployments the version string of the active model
\* strictly increases in lexicographic order: the version a deployment saves
\* compares greater than every version that was deployed before it.
C22_VersionsIncrease ==
    [][Len(models') > Len(models)
          => \A i \in DOMAIN models :
                LexLess(models[i].version, models'[Len(models')].version)]_vars

\* C23: Health() returns status healthy iff the database is reachable and an
\* active model exists, and returns status degraded, a normal response and
\* not an error, whenever either one is false.
C23_HealthyOrDegraded ==
    [][health' # health =>
          /\ health'.status \in {"healthy", "degraded"}
          /\ health'.status = "healthy"
                 <=> (health'.database_connected /\ ActiveRows(models) # {})]_vars

\* C24: in every Info() response retraining_status.ready_for_retraining
\* equals (feedback_samples_collected >= retraining_threshold), after any
\* sequence of Score() requests.  Checked for the Info() calls that no
\* scoring request overlaps: no request is in flight when get_status runs
\* and the metric has not changed since Info() read it.
C24_ReadyMatchesSamples ==
    [][(/\ info.pc = "status"
        /\ info'.pc = "done"
        /\ \A s \in STasks : stask[s].pc \in {"idle", "done"}
        /\ system_metrics.feedback_count = info.feedback_samples_collected)
       => info'.ready_for_retraining
             = (info'.feedback_samples_collected >= retraining_threshold)]_vars

\* C26: get_status() changes no controller, registry, cache or store state,
\* never waits on the retraining guard whatever state the controller is in,
\* and in every snapshot it returns
\* ready_for_retraining = (feedback_count >= threshold).
C26_StatusIsPureSnapshot ==
    /\ [][(info.pc = "status" /\ info'.pc = "done")
            => /\ UNCHANGED <<StoreVars, model_cache, ControllerVars>>
               /\ info'.ready_for_retraining
                     = (info'.feedback_count >= retraining_threshold)
               /\ info'.feedback_count = FeedbackNow
               /\ info'.is_retraining = is_retraining]_vars
    /\ [](info.pc = "status" => ENABLED InfoStatus)

\* get_status answered at the threshold while a run held the guard
C26_Witness ==
    /\ info.pc = "done"
    /\ info.is_retraining
    /\ info.feedback_count = retraining_threshold
    /\ info.ready_for_retraining
    /\ retrain_lock = "r1"

\* C27: a Score() request violating any field constraint (age outside
\* 18..100, a negative engagement counter, a lead_source outside the 7 fixed
\* values, an identity empty after trimming) is rejected with an error
\* listing every violated field, and leaves lead_scores, the counters, the
\* registry and the cache unchanged.
ViolatedFields(req) ==
    {f \in {"age"} : req.age < 18 \/ req.age > 100}
    \cup {f \in CounterFields : req[f] < 0}
    \cup {f \in {"lead_source"} : req.lead_source \notin LeadSource}
    \cup {f \in {"lead_id"} :
            \A i \in 1..Len(req.lead_id) : req.lead_id[i] = " "}

C27_InvalidRequestRejected ==
    [][\A s \in STasks :
          (stask[s].pc \in {"idle", "done"} /\ stask'[s] # stask[s])
          => \A req \in Requests :
                (ViolatedFields(req) # {} /\ PostScore(s, req))
                => /\ stask'[s].pc = "done"
                   /\ stask'[s].response.status = 422
                   /\ stask'[s].response.detail = ViolatedFields(req)
                   /\ UNCHANGED <<lead_scores, system_metrics, models,
                                  model_cache>>]_vars

\* a request with three violated fields was rejected after leads were stored
C27_Witness ==
    \E s \in STasks :
        /\ stask[s].pc = "done"
        /\ stask[s].error = "Unprocessable Entity"
        /\ stask[s].response.status = 422
        /\ stask[s].response.detail = {"age", "lead_id", "email_opens"}
        /\ lead_scores["L1"].present
        /\ system_metrics.total_scores = 1

\* C28: no operation removes a version from the model registry or changes
\* its stored blob or metrics after it was saved: the set of versions only
\* grows, and a superseded version stays in the registry with active = 0.
C28_RegistryOnlyGrows ==
    [][/\ Len(models') >= Len(models)
       /\ \A i \in DOMAIN models :
             /\ models'[i].version = models[i].version
             /\ models'[i].auc = models[i].auc
             /\ (i < Len(models) /\ models[i].active = 0)
                    => models'[i].active = 0]_vars

\* a deployment finished: the superseded bootstrap version is still stored,
\* inactive and with its metrics, next to the active new version
C28_Witness ==
    /\ Len(models) = 2
    /\ models[1] = [version |-> model_version, auc |-> target_auc, active |-> 0]
    /\ models[2].active = 1
    /\ rtask["r1"].pc = "done"
    /\ rtask["r1"].result.status = "success"
    /\ rtask["r1"].result.new_version = models[2].version

\* C29: every check_and_retrain invocation that acquires the guard
\* eventually releases it and returns the controller to IDLE, whether or not
\* its caller still waits (a background thread has no caller), and every
\* Retrain() caller eventually gets a result under fair scheduling: manual
\* and background triggers do not deadlock.
C29_GuardReleasedCallerAnswered ==
    \A t \in RTasks :
        /\ (retrain_lock = t)
              ~> (rtask[t].pc = "done" /\ retrain_lock = "free"
                                       /\ ~is_retraining)
        /\ (rtask[t].pc = "acquire") ~> (rtask[t].pc = "done")

\* a call waits for the guard while a triggered run is deploying
C29_Witness ==
    /\ rtask["r2"].pc = "acquire"
    /\ retrain_lock = "r1"
    /\ rtask["r1"].pc \in DeployPcs
    /\ is_retraining
    /\ bg_pending = 0
    /\ \E s \in STasks : stask[s].pc = "done" /\ stask[s].stored

\* the statements of a deployment in program order
DeployOrder == <<"deactivate", "save", "activate", "metric_training",
                 "clear_cache", "metric_retraining", "metric_version">>

DeployPosition(pc) == CHOOSE i \in DOMAIN DeployOrder : DeployOrder[i] = pc

\* C30: in a successful deployment the steps take effect in the order
\* deactivate existing artifacts, save and activate the new version,
\* invalidate the model cache, update last_retraining; the cache is
\* invalidated exactly once per successful deployment, and never by a run
\* that ends in insufficient_feedback, no_improvement or error (any ending
\* other than success).
C30_DeploymentOrder ==
    [][\A t \in RTasks :
          StepOf(t) =>
            /\ rtask'[t].pc \in DeployPcs
                  => \/ rtask[t].pc = "train" /\ rtask'[t].pc = DeployOrder[1]
                     \/ /\ rtask[t].pc \in DeployPcs
                        /\ DeployPosition(rtask'[t].pc)
                              = DeployPosition(rtask[t].pc) + 1
            /\ model_cache' # model_cache => rtask[t].pc = "clear_cache"
            /\ rtask[t].pc = "clear_cache"
                  => /\ model_cache' = NoModel
                     /\ ActiveVersions(models) = {rtask[t].new_version}
            /\ (rtask'[t].pc = "done" /\ rtask'[t].result.status = "success")
                  => rtask[t].pc = "metric_version"
            /\ (rtask'[t].pc = "done" /\ rtask'[t].result.status # "success")
                  => rtask[t].pc \notin {"metric_retraining", "metric_version"}
      ]_vars

\* C31: when all of a set of concurrent Score() requests have completed,
\* total_scores in system_metrics equals the number of rows in lead_scores:
\* no interleaving leaves a lower, stale count.
C31_TotalMatchesRows ==
    (\A s \in DOMAIN stask : stask[s].pc \in {"idle", "done"})
    => system_metrics.total_scores = get_total_scores(lead_scores, other_rows)

\* C32: the feedback_count reported in a retraining result equals the number
\* of records that run trained on, under any interleaving with scoring
\* requests: the count read in CHECKING and the feedback set read in
\* TRAINING form one snapshot.
C32_ResultCountIsTrainedOn ==
    [][\A t \in RTasks :
          (/\ rtask[t].pc \in TryPcs
           /\ rtask'[t].pc = "done"
           /\ rtask'[t].result.status \in {"success", "no_improvement"})
          => rtask'[t].result.feedback_count = rtask[t].trained_on]_vars

AfterFetchPcs == {"insert", "total", "update_total", "feedback",
                  "update_feedback", "learn"}

C34_NoModelIsError ==
    [][\A t \in RTasks :
          /\ (rtask[t].pc = "load_model" /\ ActiveRows(models) = {}
                 /\ StepOf(t) /\ rtask'[t].result.status # "raised")
             => /\ rtask[t].feedback_count >= retraining_threshold
                /\ rtask'[t].pc = "done"
                /\ rtask'[t].result.status = "error"
                /\ rtask'[t].result.message = "No current model found"
                /\ models' = models
                /\ system_metrics' = system_metrics
                /\ model_cache' = model_cache
                /\ last_retrain_time' = last_retrain_time
                /\ ~is_retraining'
          /\ (rtask[t].pc = "check_feedback" /\ StepOf(t)
                 /\ rtask'[t].result.status # "raised"
                 /\ FeedbackNow < retraining_threshold)
             => /\ rtask'[t].pc = "done"
                /\ rtask'[t].result.status = "insufficient_feedback"
                /\ models' = models]_vars

\* a run answered 'No current model found' over a registry that holds rows,
\* none of them active, and another run was answered insufficient_feedback
C34_Witness ==
    \E t, u \in RTasks :
        /\ rtask[t].pc = "done"
        /\ rtask[t].result.status = "error"
        /\ rtask[t].result.message = "No current model found"
        /\ models # <<>>
        /\ ActiveRows(models) = {}
        /\ rtask[u].pc = "done"
        /\ rtask[u].result.status = "insufficient_feedback"

MajorMinorForm(v) ==
    \E d \in 1..Len(v) :
        /\ v[d] = "."
        /\ \A i \in 1..Len(v) : i # d => v[i] # "."
        /\ int_ok(SubSeq(v, d + 1, Len(v)))

\* nv is major.(minor+1) for v = major.minor: the same major, and a minor
\* in canonical decimal form whose value is one more
IsIncrementOf(nv, v) ==
    \E d \in 1..Len(v) :
        /\ v[d] = "."
        /\ Len(nv) > d
        /\ SubSeq(nv, 1, d) = SubSeq(v, 1, d)
        /\ LET m == SubSeq(nv, d + 1, Len(nv)) IN
              /\ int_ok(m)
              /\ Head(m) # "+"
              /\ Len(Unsigned(m)) > 1 => Head(Unsigned(m)) # "0"
              /\ int(m) = int(SubSeq(v, d + 1, Len(v))) + 1

IsTimestampVersion(nv) == \E ts \in Timestamps : nv = <<"1", ".">> \o ts

\* C36: _generate_version returns major.(minor+1) for every current version
\* of the form major.minor with an integer minor, and a timestamp-derived
\* version 1.<timestamp> for every other form (no dot, more than one dot, a
\* non-numeric minor).
C36_NextVersionForm ==
    [][\A t \in RTasks :
          (rtask[t].pc = "train" /\ rtask'[t].pc = "deactivate")
          => IF MajorMinorForm(rtask[t].current_version)
             THEN IsIncrementOf(rtask'[t].new_version,
                                rtask[t].current_version)
             ELSE IsTimestampVersion(rtask'[t].new_version)]_vars

\* deployed: an increment of a two-digit minor with a carry, and a fallback
\* for a version with two dots
C36_Witness ==
    \E t \in RTasks :
        /\ rtask[t].pc = "done"
        /\ rtask[t].result.status = "success"
        /\ \/ /\ rtask[t].result.old_version = <<"9", ".", "9", "9">>
              /\ rtask[t].result.new_version = <<"9", ".", "1", "0", "0">>
           \/ /\ rtask[t].result.old_version = <<"1", ".", "1", ".">>
              /\ IsTimestampVersion(rtask[t].result.new_version)

\* C37: get_cached_model returns the cached artifact without reading the
\* registry when the cache is populated; otherwise it loads the registry's
\* active artifact and caches it; when the registry has no active artifact it
\* returns none and leaves the cache empty, so that a later call loads again.
C37_CacheReadThrough ==
    [][\A s \in STasks :
          /\ (stask[s].pc \in {"idle", "done"} /\ stask'[s] # stask[s])
             => /\ model_cache # NoModel => stask'[s].pc = "return_cache"
                /\ model_cache = NoModel => stask'[s].pc = "load"
          /\ (stask[s].pc = "load" /\ stask'[s] # stask[s])
             => /\ ActiveRows(models) = {} => stask'[s].loaded = NoModel
                /\ ActiveRows(models) # {}
                     => /\ stask'[s].loaded # NoModel
                        /\ stask'[s].loaded.version \in ActiveVersions(models)
          /\ (stask[s].pc = "populate" /\ stask'[s] # stask[s])
             => model_cache' = stask[s].loaded
          /\ (stask[s].pc = "return_cache" /\ stask'[s] # stask[s])
             => /\ model_cache' = model_cache
                /\ stask'[s].model_data = model_cache
                /\ stask[s].loaded # NoModel
                     => stask'[s].model_data = stask[s].loaded
                /\ model_cache = NoModel
                     => stask'[s].error = "No trained model available"]_vars

\* a call that found the cache empty returned the model the training script
\* activated after the process had started on an empty registry
C37_Witness ==
    \E s \in STasks :
        /\ stask[s].pc = "insert"
        /\ stask[s].model_data # NoModel
        /\ stask[s].model_data = stask[s].loaded
        /\ model_cache = stask[s].loaded
        /\ itask = "metric"

\* C38: a Score() request without an outcome never changes the
\* feedback_count counter in system_metrics and never triggers a retraining
\* run, whatever the current number of feedback records is.
C38_NoOutcomeNoFeedbackEffect ==
    [][\A s \in STasks :
          (stask[s].pc \notin {"idle", "done"}
               /\ stask[s].actual_outcome = "null"
               /\ stask'[s] # stask[s])
          => /\ system_metrics'.feedback_count = system_metrics.feedback_count
             /\ bg_pending' = bg_pending
             /\ rtask' = rtask
             /\ retrain_lock' = retrain_lock]_vars

\* a request without an outcome was scored and stored while the store held
\* the threshold number of feedback records, and no retraining was started
C38_Witness ==
    \E s \in STasks :
        /\ stask[s].pc = "done"
        /\ stask[s].stored
        /\ stask[s].error = ""
        /\ lead_scores[stask[s].response.lead_id].present
        /\ lead_scores[stask[s].response.lead_id].actual_outcome = "null"
        /\ FeedbackNow >= retraining_threshold
        /\ bg_pending = 0
        /\ \A t \in RTasks : rtask[t].pc = "idle"

\* C39: every version generated for a deployment differs from every version
\* already in the registry, so saving the new artifact never conflicts with
\* an existing primary key, over any sequence of retraining runs that started
\* from an active version 1.0: the versions of the registry stay pairwise
\* distinct and the INSERT of a run never raises IntegrityError.
C39_GeneratedVersionIsNew ==
    /\ [][\A t \in RTasks :
             (rtask[t].pc = "save" /\ StepOf(t)
                  /\ (rtask'[t].pc = "activate"
                         \/ rtask'[t].result.message = "IntegrityError"))
             => /\ rtask[t].new_version \notin Versions(models)
                /\ rtask'[t].result.message # "IntegrityError"]_vars
    /\ [](\A i, j \in DOMAIN models :
              models[i].version = models[j].version => i = j)

\* the run after MaxDeployed deployments has saved its artifact
C39_Witness ==
    \E t \in RTasks :
        /\ rtask[t].pc = "activate"
        /\ Len(models) = MaxDeployed + 2
        /\ models[Len(models)].version = rtask[t].new_version
        /\ models[1].version = model_version

\* C40: is_retraining is true only while some task holds retrain_lock and is
\* in TRAINING or DEPLOYING; in every state where the lock is free,
\* is_retraining is false.
C40_FlagOnlyUnderLock ==
    /\ is_retraining
          => \E t \in RTasks : retrain_lock = t /\ rtask[t].pc \in TryPcs
    /\ retrain_lock = "free" => ~is_retraining

\* the flag is up while a run that holds the lock is deploying, and the
\* other caller waits for the lock
C40_Witness ==
    \E t, u \in RTasks :
        /\ is_retraining
        /\ retrain_lock = t
        /\ rtask[t].pc = "activate"
        /\ rtask[u].pc = "acquire"

====
